---- MODULE Spec2Model ----
(***************************************************************************)
(* A model of del_aws_resources.py: nine "delete every resource of one     *)
(* type" procedures and the __main__ driver that runs them in sequence.    *)
(*                                                                         *)
(* The program's state is its position (driver index, label inside the     *)
(* running procedure, loop indices over the listings it fetched) and the   *)
(* provider-side state of the region it mutates through the API.  Every    *)
(* API call is one step; a call that raises ends the run unless the code   *)
(* catches it (only the get_function poll is inside a try).  The provider  *)
(* finishes asynchronous deletions in steps of its own.                    *)
(*                                                                         *)
(* Abstractions: a paginated listing is one call that returns one page; a  *)
(* resource name is a sequence of segments and `'X' in name` is "some      *)
(* segment is X"; EC2 reservations are flattened into their instances.     *)
(***************************************************************************)
EXTENDS Integers, Sequences, FiniteSets, TLC

\* ---------------------------------------------------------------- bounds
MaxRes == 1      \* resources of each top-level type in the region
MaxSub == 1      \* nested resources (node groups, services, tasks, routes) per parent
MaxStacks == 3   \* stacks in the region when delete_all_stacks is run on its own
MaxClusters == 2    \* EKS clusters when delete_all_eks_clusters is run on its own
MaxNodegroups == 2  \* node groups per EKS cluster in that case
MaxFunctions == 2   \* functions when delete_all_lambda_functions is run on its own
MaxPolls == 2    \* the poll counter saturates here; the loop itself has no bound

VARIABLES
    entry,        \* the entry point that was invoked: "main" or one procedure
    waitArg,      \* the wait argument each procedure is called with
    region,       \* how many resources of each type the region held at the start
    proc,         \* index into Driver of the procedure that is running
    pc,           \* label inside the running procedure
    outcome,      \* "running", "success" (exit 0) or "failed" (unhandled exception)
    calls,        \* every API call issued so far, in order (polls are counted in polls)
    printed,      \* the progress lines written to stdout, in order
    list, idx,    \* the listing being iterated and the position in it
    sub, jdx,     \* the nested listing being iterated and the position in it
    pass,         \* delete_all_stacks: 1 = name-filtered pass, 2 = general pass
    polls,        \* get_function polls issued per function (saturating)
    pollEnd,      \* how the poll loop of each function ended
    res,          \* provider state of every non-stack resource
    stackOrder,   \* the region's stacks in the order list_stacks returns them
    stackInit,    \* the status every stack had when the run started
    stackStatus,  \* provider status of every stack
    stackProt     \* EnableTerminationProtection of every stack

vars == <<entry, waitArg, region, proc, pc, outcome, calls, printed, list, idx,
          sub, jdx, pass, polls, pollEnd, res, stackOrder, stackInit, stackStatus, stackProt>>

ctl == <<entry, waitArg, region, stackOrder, stackInit, stackProt>>
loops == <<list, idx, sub, jdx, pass>>
lam == <<polls, pollEnd>>

\* ---------------------------------------------------------------- driver
\* Variant: the stacks deleted before the EKS clusters.
DriverStacksBeforeEks == <<"asg", "ecs", "ec2", "lambda", "peering", "opensearch",
                           "kinesis", "stacks", "eks">>

\* The call sequence of __main__.
Driver == <<"asg", "ecs", "ec2", "lambda", "peering", "opensearch", "kinesis",
            "eks", "stacks">>

\* The wait argument of each call in __main__ (eks: the parameter's default).
DriverWait == [ecs |-> TRUE, ec2 |-> FALSE, eks |-> FALSE, stacks |-> FALSE]

\* The first label of each procedure.
StartLabel(p) == CASE p = "asg" -> "asg_list"
                   [] p = "ecs" -> "ecs_list"
                   [] p = "ec2" -> "ec2_list"
                   [] p = "lambda" -> "lam_list"
                   [] p = "peering" -> "pcx_list"
                   [] p = "opensearch" -> "os_list"
                   [] p = "kinesis" -> "kin_list"
                   [] p = "eks" -> "eks_list"
                   [] p = "stacks" -> "stk_list"

ProcIndex(p) == CHOOSE i \in 1..Len(Driver) : Driver[i] = p

Cur == Driver[proc]
Running == outcome = "running"

\* ---------------------------------------------------------------- helpers
Min(a, b) == IF a < b THEN a ELSE b

Call(p, api, arg, ok) == [proc |-> p, api |-> api, arg |-> arg, ok |-> ok]

Line(msg, arg) == [msg |-> msg, arg |-> arg]

\* An API call that raises outside any try block: the exception propagates
\* out of the procedure and out of __main__, and the interpreter exits non-zero.
Raise(api, arg, out) ==
    /\ calls' = Append(calls, Call(Cur, api, arg, FALSE))
    /\ printed' = out
    /\ outcome' = "failed"
    /\ pc' = "aborted"
    /\ UNCHANGED <<ctl, loops, lam, proc, res, stackStatus>>

\* 'X' in name
Contains(name, x) == \E i \in 1..Len(name) : name[i] = x

\* The resources of type t the region started with, in listing order.
Ids(t) == [i \in 1..region[t] |-> <<t, i>>]

\* The children of type t of resource r, in listing order.
SubIds(t, r) == [j \in 1..region[t] |-> <<t, r[2], j>>]

\* A listing returns the resources the provider still has.
Listing(s) == SelectSeq(s, LAMBDA r : res[r] # "gone")

\* ---------------------------------------------------------------- stacks
StackNames == { <<"AppPipe", "prod">>, <<"my", "AppIngestion">>,
                <<"other", "infra">>, <<"other", "app">> }

\* StackStatusFilter of the two paginate calls.
StatusFilter(p) ==
    IF p = 1 THEN {"CREATE_COMPLETE", "UPDATE_COMPLETE", "ROLLBACK_COMPLETE", "DELETE_FAILED"}
             ELSE {"CREATE_COMPLETE", "UPDATE_COMPLETE", "ROLLBACK_COMPLETE"}

\* Variant: the first pass selects on 'AppPipe' alone.
NameMatchAppPipeOnly(p, name) ==
    IF p = 1 THEN Contains(name, "AppPipe") ELSE ~Contains(name, "AppPipe")

\* The name test that guards the body of each pass.
NameMatch(p, name) ==
    IF p = 1 THEN Contains(name, "AppPipe") \/ Contains(name, "AppIngestion")
             ELSE ~Contains(name, "AppPipe")

\* Variant: the protection test made in the name-filtered pass only.
TerminationProtectedFirstPassOnly(n) == pass = 1 /\ stackProt[n]

\* stack_details['Stacks'][0]['EnableTerminationProtection']
TerminationProtected(n) == stackProt[n]

ListStacks(p) == SelectSeq(stackOrder, LAMBDA n : stackStatus[n] \in StatusFilter(p))

\* paginator.paginate(StackStatusFilter=...) of pass `pass`
StacksList ==
    /\ Running /\ pc = "stk_list"
    /\ \/ Raise("list_stacks", pass, printed)
       \/ /\ calls' = Append(calls, Call(Cur, "list_stacks", pass, TRUE))
          /\ list' = ListStacks(pass)
          /\ idx' = 1
          /\ pc' = "stk_loop"
          /\ UNCHANGED <<ctl, lam, proc, outcome, printed, sub, jdx, pass, res, stackStatus>>

\* A listed stack whose name fails the pass's test: the loop body is not entered.
StacksSkipName ==
    /\ Running /\ pc = "stk_loop" /\ idx <= Len(list)
    /\ ~NameMatch(pass, list[idx])
    /\ idx' = idx + 1
    /\ UNCHANGED <<ctl, lam, proc, pc, outcome, calls, printed, list, sub, jdx, pass,
                   res, stackStatus>>

\* describe_stacks and the termination-protection test.
StacksDescribe ==
    /\ Running /\ pc = "stk_loop" /\ idx <= Len(list)
    /\ NameMatch(pass, list[idx])
    /\ \/ Raise("describe_stacks", list[idx], printed)
       \/ /\ calls' = Append(calls, Call(Cur, "describe_stacks", list[idx], TRUE))
          /\ IF TerminationProtected(list[idx])
               THEN /\ printed' = Append(printed, Line("Skipping stack", list[idx]))
                    /\ idx' = idx + 1
                    /\ pc' = "stk_loop"
               ELSE /\ printed' = Append(printed, Line("Deleting stack", list[idx]))
                    /\ idx' = idx
                    /\ pc' = "stk_delete"
          /\ UNCHANGED <<ctl, lam, proc, outcome, list, sub, jdx, pass, res, stackStatus>>

\* client.delete_stack, then the branch on wait.
StacksDelete ==
    /\ Running /\ pc = "stk_delete"
    /\ \/ Raise("delete_stack", list[idx], printed)
       \/ /\ calls' = Append(calls, Call(Cur, "delete_stack", list[idx], TRUE))
          /\ stackStatus' = [stackStatus EXCEPT ![list[idx]] = "DELETE_IN_PROGRESS"]
          /\ IF waitArg.stacks
               THEN pc' = "stk_wait" /\ idx' = idx
               ELSE pc' = "stk_loop" /\ idx' = idx + 1
          /\ UNCHANGED <<ctl, lam, proc, outcome, printed, list, sub, jdx, pass, res>>

\* waiter 'stack_delete_complete': returns once the stack is deleted, raises
\* on a failed deletion or when its attempts run out.
StacksWait ==
    /\ Running /\ pc = "stk_wait"
    /\ \/ Raise("wait_stack_delete_complete", list[idx], printed)
       \/ /\ stackStatus[list[idx]] = "DELETE_COMPLETE"
          /\ calls' = Append(calls, Call(Cur, "wait_stack_delete_complete", list[idx], TRUE))
          /\ printed' = Append(printed, Line("Deleted stack", list[idx]))
          /\ idx' = idx + 1
          /\ pc' = "stk_loop"
          /\ UNCHANGED <<ctl, lam, proc, outcome, list, sub, jdx, pass, res, stackStatus>>

\* End of a pass: the first is followed by the second listing, the second by return.
StacksEndPass ==
    /\ Running /\ pc = "stk_loop" /\ idx > Len(list)
    /\ IF pass = 1 THEN pass' = 2 /\ pc' = "stk_list"
                   ELSE pass' = pass /\ pc' = "ret"
    /\ UNCHANGED <<ctl, lam, proc, outcome, calls, printed, list, idx, sub, jdx, res,
                   stackStatus>>

\* CloudFormation works on a deletion it accepted: it completes or fails.
ProviderStack ==
    \E n \in StackNames, s \in {"DELETE_COMPLETE", "DELETE_FAILED"} :
        /\ stackStatus[n] = "DELETE_IN_PROGRESS"
        /\ stackStatus' = [stackStatus EXCEPT ![n] = s]
        /\ UNCHANGED <<ctl, loops, lam, proc, pc, outcome, calls, printed, res>>

StacksStep == StacksList \/ StacksSkipName \/ StacksDescribe \/ StacksDelete
              \/ StacksWait \/ StacksEndPass

\* ---------------------------------------------------------------- auto scaling
AsgList ==
    /\ Running /\ pc = "asg_list"
    /\ \/ Raise("describe_auto_scaling_groups", <<>>, printed)
       \/ /\ calls' = Append(calls, Call(Cur, "describe_auto_scaling_groups", <<>>, TRUE))
          /\ list' = Listing(Ids("asg"))
          /\ idx' = 1
          /\ pc' = "asg_loop"
          /\ UNCHANGED <<ctl, lam, proc, outcome, printed, sub, jdx, pass, res, stackStatus>>

\* delete_auto_scaling_group(ForceDelete=True); no wait.
AsgDelete ==
    /\ Running /\ pc = "asg_loop" /\ idx <= Len(list)
    /\ LET out == Append(printed, Line("Deleting Auto Scaling group", list[idx]))
       IN \/ Raise("delete_auto_scaling_group", list[idx], out)
          \/ /\ calls' = Append(calls, Call(Cur, "delete_auto_scaling_group", list[idx], TRUE))
             /\ res' = [res EXCEPT ![list[idx]] = "deleting"]
             /\ printed' = Append(out, Line("Deleted Auto Scaling group", list[idx]))
             /\ idx' = idx + 1
             /\ UNCHANGED <<ctl, lam, proc, pc, outcome, list, sub, jdx, pass, stackStatus>>

\* Variant: the loop body entered once before the listing is tested, so an empty
\* listing leads to a delete call without a name.
AsgEndBodyFirst ==
    /\ Running /\ pc = "asg_loop" /\ idx > Len(list)
    /\ IF list = <<>>
         THEN Raise("delete_auto_scaling_group", <<>>, printed)
         ELSE /\ pc' = "ret"
              /\ UNCHANGED <<ctl, loops, lam, proc, outcome, calls, printed, res, stackStatus>>

AsgEnd ==
    /\ Running /\ pc = "asg_loop" /\ idx > Len(list)
    /\ pc' = "ret"
    /\ UNCHANGED <<ctl, loops, lam, proc, outcome, calls, printed, res, stackStatus>>

AsgStep == AsgList \/ AsgDelete \/ AsgEnd

\* ---------------------------------------------------------------- lambda
LambdaList ==
    /\ Running /\ pc = "lam_list"
    /\ \/ Raise("list_functions", <<>>, printed)
       \/ /\ calls' = Append(calls, Call(Cur, "list_functions", <<>>, TRUE))
          /\ list' = Listing(Ids("lambda"))
          /\ idx' = 1
          /\ pc' = "lam_loop"
          /\ UNCHANGED <<ctl, lam, proc, outcome, printed, sub, jdx, pass, res, stackStatus>>

LambdaDelete ==
    /\ Running /\ pc = "lam_loop" /\ idx <= Len(list)
    /\ LET out == Append(printed, Line("Deleting Lambda function", list[idx]))
       IN \/ Raise("delete_function", list[idx], out)
          \/ /\ calls' = Append(calls, Call(Cur, "delete_function", list[idx], TRUE))
             /\ res' = [res EXCEPT ![list[idx]] = "deleting"]
             /\ printed' = out
             /\ pc' = "lam_poll"
             /\ UNCHANGED <<ctl, loops, lam, proc, outcome, stackStatus>>

\* Variant: no `except Exception`, so a poll that raises anything but "not found"
\* propagates and ends the run.
LambdaPollNoCatch ==
    /\ Running /\ pc = "lam_poll"
    /\ LET f == list[idx] IN
       /\ polls' = [polls EXCEPT ![f] = Min(polls[f] + 1, MaxPolls)]
       /\ \/ /\ res[f] = "gone"
             /\ printed' = Append(printed, Line("Deleted Lambda function", f))
             /\ pollEnd' = [pollEnd EXCEPT ![f] = "notfound"]
             /\ idx' = idx + 1
             /\ pc' = "lam_loop"
             /\ UNCHANGED <<outcome, calls>>
          \/ /\ calls' = Append(calls, Call(Cur, "get_function", f, FALSE))
             /\ outcome' = "failed"
             /\ pc' = "aborted"
             /\ UNCHANGED <<printed, pollEnd, idx>>
          \/ /\ res[f] # "gone"
             /\ UNCHANGED <<printed, pollEnd, idx, pc, outcome, calls>>
    /\ UNCHANGED <<ctl, proc, list, sub, jdx, pass, res, stackStatus>>

\* Variant: the loop gives up after MaxPolls polls.
LambdaPollMaxAttempts ==
    /\ Running /\ pc = "lam_poll"
    /\ LET f == list[idx] IN
       /\ polls' = [polls EXCEPT ![f] = Min(polls[f] + 1, MaxPolls)]
       /\ \/ /\ res[f] = "gone"
             /\ printed' = Append(printed, Line("Deleted Lambda function", f))
             /\ pollEnd' = [pollEnd EXCEPT ![f] = "notfound"]
             /\ idx' = idx + 1
             /\ pc' = "lam_loop"
          \/ /\ printed' = Append(printed, Line("Error checking function status", f))
             /\ pollEnd' = [pollEnd EXCEPT ![f] = "error"]
             /\ idx' = idx + 1
             /\ pc' = "lam_loop"
          \/ /\ res[f] # "gone"
             /\ IF polls[f] + 1 >= MaxPolls
                  THEN idx' = idx + 1 /\ pc' = "lam_loop"
                  ELSE idx' = idx /\ pc' = pc
             /\ UNCHANGED <<printed, pollEnd>>
    /\ UNCHANGED <<ctl, proc, outcome, calls, list, sub, jdx, pass, res, stackStatus>>

\* One turn of the `while True` loop: get_function inside try/except.
\*   ResourceNotFoundException -> "Deleted ..." is printed, break
\*   any other exception       -> "Error checking ..." is printed, break
\*   no exception              -> sleep 5 s and poll again
LambdaPoll ==
    /\ Running /\ pc = "lam_poll"
    /\ LET f == list[idx] IN
       /\ polls' = [polls EXCEPT ![f] = Min(polls[f] + 1, MaxPolls)]
       /\ \/ /\ res[f] = "gone"
             /\ printed' = Append(printed, Line("Deleted Lambda function", f))
             /\ pollEnd' = [pollEnd EXCEPT ![f] = "notfound"]
             /\ idx' = idx + 1
             /\ pc' = "lam_loop"
          \/ /\ printed' = Append(printed, Line("Error checking function status", f))
             /\ pollEnd' = [pollEnd EXCEPT ![f] = "error"]
             /\ idx' = idx + 1
             /\ pc' = "lam_loop"
          \/ /\ res[f] # "gone"
             /\ UNCHANGED <<printed, pollEnd, idx, pc>>
    /\ UNCHANGED <<ctl, proc, outcome, calls, list, sub, jdx, pass, res, stackStatus>>

LambdaEnd ==
    /\ Running /\ pc = "lam_loop" /\ idx > Len(list)
    /\ pc' = "ret"
    /\ UNCHANGED <<ctl, loops, lam, proc, outcome, calls, printed, res, stackStatus>>

LambdaStep == LambdaList \/ LambdaDelete \/ LambdaPoll \/ LambdaEnd

\* ---------------------------------------------------------------- opensearch
OpenSearchList ==
    /\ Running /\ pc = "os_list"
    /\ \/ Raise("list_domain_names", <<>>, printed)
       \/ /\ calls' = Append(calls, Call(Cur, "list_domain_names", <<>>, TRUE))
          /\ list' = Listing(Ids("opensearch"))
          /\ idx' = 1
          /\ pc' = "os_loop"
          /\ UNCHANGED <<ctl, lam, proc, outcome, printed, sub, jdx, pass, res, stackStatus>>

\* Variant: delete_domain inside a try block that logs the exception and goes on.
OpenSearchDeleteSwallow ==
    /\ Running /\ pc = "os_loop" /\ idx <= Len(list)
    /\ LET out == Append(printed, Line("Deleting OpenSearch cluster", list[idx]))
       IN \/ /\ calls' = Append(calls, Call(Cur, "delete_domain", list[idx], FALSE))
             /\ printed' = out
             /\ idx' = idx + 1
             /\ UNCHANGED <<ctl, lam, proc, pc, outcome, list, sub, jdx, pass, res,
                            stackStatus>>
          \/ /\ calls' = Append(calls, Call(Cur, "delete_domain", list[idx], TRUE))
             /\ res' = [res EXCEPT ![list[idx]] = "deleting"]
             /\ printed' = Append(out, Line("Deleted OpenSearch cluster", list[idx]))
             /\ idx' = idx + 1
             /\ UNCHANGED <<ctl, lam, proc, pc, outcome, list, sub, jdx, pass, stackStatus>>

OpenSearchDelete ==
    /\ Running /\ pc = "os_loop" /\ idx <= Len(list)
    /\ LET out == Append(printed, Line("Deleting OpenSearch cluster", list[idx]))
       IN \/ Raise("delete_domain", list[idx], out)
          \/ /\ calls' = Append(calls, Call(Cur, "delete_domain", list[idx], TRUE))
             /\ res' = [res EXCEPT ![list[idx]] = "deleting"]
             /\ printed' = Append(out, Line("Deleted OpenSearch cluster", list[idx]))
             /\ idx' = idx + 1
             /\ UNCHANGED <<ctl, lam, proc, pc, outcome, list, sub, jdx, pass, stackStatus>>

OpenSearchEnd ==
    /\ Running /\ pc = "os_loop" /\ idx > Len(list)
    /\ pc' = "ret"
    /\ UNCHANGED <<ctl, loops, lam, proc, outcome, calls, printed, res, stackStatus>>

OpenSearchStep == OpenSearchList \/ OpenSearchDelete \/ OpenSearchEnd

\* ---------------------------------------------------------------- kinesis
KinesisList ==
    /\ Running /\ pc = "kin_list"
    /\ \/ Raise("list_streams", <<>>, printed)
       \/ /\ calls' = Append(calls, Call(Cur, "list_streams", <<>>, TRUE))
          /\ list' = Listing(Ids("kinesis"))
          /\ idx' = 1
          /\ pc' = "kin_loop"
          /\ UNCHANGED <<ctl, lam, proc, outcome, printed, sub, jdx, pass, res, stackStatus>>

KinesisDelete ==
    /\ Running /\ pc = "kin_loop" /\ idx <= Len(list)
    /\ LET out == Append(printed, Line("Deleting Kinesis data stream", list[idx]))
       IN \/ Raise("delete_stream", list[idx], out)
          \/ /\ calls' = Append(calls, Call(Cur, "delete_stream", list[idx], TRUE))
             /\ res' = [res EXCEPT ![list[idx]] = "deleting"]
             /\ printed' = out
             /\ idx' = idx + 1
             /\ UNCHANGED <<ctl, lam, proc, pc, outcome, list, sub, jdx, pass, stackStatus>>

\* The data-stream loop is over: list the Firehose delivery streams.
FirehoseList ==
    /\ Running /\ pc = "kin_loop" /\ idx > Len(list)
    /\ \/ Raise("list_delivery_streams", <<>>, printed)
       \/ /\ calls' = Append(calls, Call(Cur, "list_delivery_streams", <<>>, TRUE))
          /\ list' = Listing(Ids("firehose"))
          /\ idx' = 1
          /\ pc' = "fh_loop"
          /\ UNCHANGED <<ctl, lam, proc, outcome, printed, sub, jdx, pass, res, stackStatus>>

FirehoseDelete ==
    /\ Running /\ pc = "fh_loop" /\ idx <= Len(list)
    /\ LET out == Append(printed, Line("Deleting Kinesis Firehose delivery stream", list[idx]))
       IN \/ Raise("delete_delivery_stream", list[idx], out)
          \/ /\ calls' = Append(calls, Call(Cur, "delete_delivery_stream", list[idx], TRUE))
             /\ res' = [res EXCEPT ![list[idx]] = "deleting"]
             /\ printed' = out
             /\ idx' = idx + 1
             /\ UNCHANGED <<ctl, lam, proc, pc, outcome, list, sub, jdx, pass, stackStatus>>

KinesisEnd ==
    /\ Running /\ pc = "fh_loop" /\ idx > Len(list)
    /\ pc' = "ret"
    /\ UNCHANGED <<ctl, loops, lam, proc, outcome, calls, printed, res, stackStatus>>

KinesisStep == KinesisList \/ KinesisDelete \/ FirehoseList \/ FirehoseDelete \/ KinesisEnd

\* ---------------------------------------------------------------- ec2
Ec2List ==
    /\ Running /\ pc = "ec2_list"
    /\ \/ Raise("describe_instances", <<>>, printed)
       \/ /\ calls' = Append(calls, Call(Cur, "describe_instances", <<>>, TRUE))
          /\ list' = Listing(Ids("ec2"))
          /\ idx' = 1
          /\ pc' = "ec2_loop"
          /\ UNCHANGED <<ctl, lam, proc, outcome, printed, sub, jdx, pass, res, stackStatus>>

Ec2Terminate ==
    /\ Running /\ pc = "ec2_loop" /\ idx <= Len(list)
    /\ LET out == Append(printed, Line("Terminating EC2 instance", list[idx]))
       IN \/ Raise("terminate_instances", list[idx], out)
          \/ /\ calls' = Append(calls, Call(Cur, "terminate_instances", list[idx], TRUE))
             /\ res' = [res EXCEPT ![list[idx]] = "deleting"]
             /\ printed' = out
             /\ IF waitArg.ec2
                  THEN pc' = "ec2_wait" /\ idx' = idx
                  ELSE pc' = "ec2_loop" /\ idx' = idx + 1
             /\ UNCHANGED <<ctl, lam, proc, outcome, list, sub, jdx, pass, stackStatus>>

\* waiter 'instance_terminated'
Ec2Wait ==
    /\ Running /\ pc = "ec2_wait"
    /\ \/ Raise("wait_instance_terminated", list[idx], printed)
       \/ /\ res[list[idx]] = "gone"
          /\ calls' = Append(calls, Call(Cur, "wait_instance_terminated", list[idx], TRUE))
          /\ printed' = Append(printed, Line("Terminated EC2 instance", list[idx]))
          /\ idx' = idx + 1
          /\ pc' = "ec2_loop"
          /\ UNCHANGED <<ctl, lam, proc, outcome, list, sub, jdx, pass, res, stackStatus>>

Ec2End ==
    /\ Running /\ pc = "ec2_loop" /\ idx > Len(list)
    /\ pc' = "ret"
    /\ UNCHANGED <<ctl, loops, lam, proc, outcome, calls, printed, res, stackStatus>>

Ec2Step == Ec2List \/ Ec2Terminate \/ Ec2Wait \/ Ec2End

\* ---------------------------------------------------------------- vpc peering
\* A route of a route table: its id and the peering connection it goes through
\* (<<"local">> for a route that goes through none).
Route(id, via) == [id |-> id, via |-> via]

\* describe_route_tables filtered on the connection returns whole tables: the
\* routes through the connection and the table's local route.
RoutesOf(r) ==
    LET through == SelectSeq(SubIds("route", r), LAMBDA x : res[x] # "gone")
    IN IF through = <<>> THEN <<>>
       ELSE <<Route(<<"route", r[2], 0>>, <<"local">>)>>
            \o [j \in 1..Len(through) |-> Route(through[j], r)]

PeeringList ==
    /\ Running /\ pc = "pcx_list"
    /\ \/ Raise("describe_vpc_peering_connections", <<>>, printed)
       \/ /\ calls' = Append(calls, Call(Cur, "describe_vpc_peering_connections", <<>>, TRUE))
          /\ list' = Listing(Ids("peering"))
          /\ idx' = 1
          /\ pc' = "pcx_loop"
          /\ UNCHANGED <<ctl, lam, proc, outcome, printed, sub, jdx, pass, res, stackStatus>>

PeeringListRoutes ==
    /\ Running /\ pc = "pcx_loop" /\ idx <= Len(list)
    /\ LET out == Append(printed, Line("Deleting VPC peering connection", list[idx]))
       IN \/ Raise("describe_route_tables", list[idx], out)
          \/ /\ calls' = Append(calls, Call(Cur, "describe_route_tables", list[idx], TRUE))
             /\ printed' = out
             /\ sub' = RoutesOf(list[idx])
             /\ jdx' = 1
             /\ pc' = "pcx_routes"
             /\ UNCHANGED <<ctl, lam, proc, outcome, list, idx, pass, res, stackStatus>>

\* A route of a returned table that does not go through the connection.
PeeringSkipRoute ==
    /\ Running /\ pc = "pcx_routes" /\ jdx <= Len(sub)
    /\ sub[jdx].via # list[idx]
    /\ jdx' = jdx + 1
    /\ UNCHANGED <<ctl, lam, proc, pc, outcome, calls, printed, list, idx, sub, pass,
                   res, stackStatus>>

PeeringDeleteRoute ==
    /\ Running /\ pc = "pcx_routes" /\ jdx <= Len(sub)
    /\ sub[jdx].via = list[idx]
    /\ \/ Raise("delete_route", sub[jdx].id, printed)
       \/ /\ calls' = Append(calls, Call(Cur, "delete_route", sub[jdx].id, TRUE))
          /\ res' = [res EXCEPT ![sub[jdx].id] = "gone"]
          /\ printed' = Append(printed, Line("Deleted route", sub[jdx].id))
          /\ jdx' = jdx + 1
          /\ UNCHANGED <<ctl, lam, proc, pc, outcome, list, idx, sub, pass, stackStatus>>

PeeringDelete ==
    /\ Running /\ pc = "pcx_routes" /\ jdx > Len(sub)
    /\ \/ Raise("delete_vpc_peering_connection", list[idx], printed)
       \/ /\ calls' = Append(calls, Call(Cur, "delete_vpc_peering_connection", list[idx], TRUE))
          /\ res' = [res EXCEPT ![list[idx]] = "gone"]
          /\ printed' = Append(printed, Line("Deleted VPC peering connection", list[idx]))
          /\ idx' = idx + 1
          /\ pc' = "pcx_loop"
          /\ UNCHANGED <<ctl, lam, proc, outcome, list, sub, jdx, pass, stackStatus>>

PeeringEnd ==
    /\ Running /\ pc = "pcx_loop" /\ idx > Len(list)
    /\ pc' = "ret"
    /\ UNCHANGED <<ctl, loops, lam, proc, outcome, calls, printed, res, stackStatus>>

PeeringStep == PeeringList \/ PeeringListRoutes \/ PeeringSkipRoute
               \/ PeeringDeleteRoute \/ PeeringDelete \/ PeeringEnd

\* ---------------------------------------------------------------- eks
EksList ==
    /\ Running /\ pc = "eks_list"
    /\ \/ Raise("eks_list_clusters", <<>>, printed)
       \/ /\ calls' = Append(calls, Call(Cur, "eks_list_clusters", <<>>, TRUE))
          /\ list' = Listing(Ids("eks"))
          /\ idx' = 1
          /\ pc' = "eks_loop"
          /\ UNCHANGED <<ctl, lam, proc, outcome, printed, sub, jdx, pass, res, stackStatus>>

EksListNodegroups ==
    /\ Running /\ pc = "eks_loop" /\ idx <= Len(list)
    /\ \/ Raise("list_nodegroups", list[idx], printed)
       \/ /\ calls' = Append(calls, Call(Cur, "list_nodegroups", list[idx], TRUE))
          /\ sub' = Listing(SubIds("nodegroup", list[idx]))
          /\ jdx' = 1
          /\ pc' = "eks_ng"
          /\ UNCHANGED <<ctl, lam, proc, outcome, printed, list, idx, pass, res, stackStatus>>

\* Variant: the node-group wait placed behind the wait argument.
EksDeleteNodegroupWaitFlag ==
    /\ Running /\ pc = "eks_ng" /\ jdx <= Len(sub)
    /\ LET out == Append(printed, Line("Deleting node group", sub[jdx]))
       IN \/ Raise("delete_nodegroup", sub[jdx], out)
          \/ /\ calls' = Append(calls, Call(Cur, "delete_nodegroup", sub[jdx], TRUE))
             /\ res' = [res EXCEPT ![sub[jdx]] = "deleting"]
             /\ printed' = out
             /\ IF waitArg.eks
                  THEN pc' = "eks_ngwait" /\ jdx' = jdx
                  ELSE pc' = "eks_ng" /\ jdx' = jdx + 1
             /\ UNCHANGED <<ctl, lam, proc, outcome, list, idx, sub, pass, stackStatus>>

EksDeleteNodegroup ==
    /\ Running /\ pc = "eks_ng" /\ jdx <= Len(sub)
    /\ LET out == Append(printed, Line("Deleting node group", sub[jdx]))
       IN \/ Raise("delete_nodegroup", sub[jdx], out)
          \/ /\ calls' = Append(calls, Call(Cur, "delete_nodegroup", sub[jdx], TRUE))
             /\ res' = [res EXCEPT ![sub[jdx]] = "deleting"]
             /\ printed' = out
             /\ pc' = "eks_ngwait"
             /\ UNCHANGED <<ctl, loops, lam, proc, outcome, stackStatus>>

\* waiter 'nodegroup_deleted', entered whatever the wait argument is.
EksWaitNodegroup ==
    /\ Running /\ pc = "eks_ngwait"
    /\ \/ Raise("wait_nodegroup_deleted", sub[jdx], printed)
       \/ /\ res[sub[jdx]] = "gone"
          /\ calls' = Append(calls, Call(Cur, "wait_nodegroup_deleted", sub[jdx], TRUE))
          /\ jdx' = jdx + 1
          /\ pc' = "eks_ng"
          /\ UNCHANGED <<ctl, lam, proc, outcome, printed, list, idx, sub, pass, res,
                         stackStatus>>

EksDeleteCluster ==
    /\ Running /\ pc = "eks_ng" /\ jdx > Len(sub)
    /\ LET out == Append(printed, Line("Deleting EKS cluster", list[idx]))
       IN \/ Raise("eks_delete_cluster", list[idx], out)
          \/ /\ calls' = Append(calls, Call(Cur, "eks_delete_cluster", list[idx], TRUE))
             /\ res' = [res EXCEPT ![list[idx]] = "deleting"]
             /\ printed' = out
             /\ IF waitArg.eks
                  THEN pc' = "eks_cwait" /\ idx' = idx
                  ELSE pc' = "eks_loop" /\ idx' = idx + 1
             /\ UNCHANGED <<ctl, lam, proc, outcome, list, sub, jdx, pass, stackStatus>>

\* waiter 'cluster_deleted'
EksWaitCluster ==
    /\ Running /\ pc = "eks_cwait"
    /\ \/ Raise("eks_wait_cluster_deleted", list[idx], printed)
       \/ /\ res[list[idx]] = "gone"
          /\ calls' = Append(calls, Call(Cur, "eks_wait_cluster_deleted", list[idx], TRUE))
          /\ idx' = idx + 1
          /\ pc' = "eks_loop"
          /\ UNCHANGED <<ctl, lam, proc, outcome, printed, list, sub, jdx, pass, res,
                         stackStatus>>

EksEnd ==
    /\ Running /\ pc = "eks_loop" /\ idx > Len(list)
    /\ pc' = "ret"
    /\ UNCHANGED <<ctl, loops, lam, proc, outcome, calls, printed, res, stackStatus>>

EksStep == EksList \/ EksListNodegroups \/ EksDeleteNodegroup \/ EksWaitNodegroup
           \/ EksDeleteCluster \/ EksWaitCluster \/ EksEnd

\* ---------------------------------------------------------------- ecs
\* Provider states of a service: "present" = ACTIVE, "deleting" = DRAINING,
\* "gone" = INACTIVE; of a task: RUNNING, stop requested, STOPPED.
EcsList ==
    /\ Running /\ pc = "ecs_list"
    /\ \/ Raise("ecs_list_clusters", <<>>, printed)
       \/ /\ calls' = Append(calls, Call(Cur, "ecs_list_clusters", <<>>, TRUE))
          /\ list' = Listing(Ids("ecs"))
          /\ idx' = 1
          /\ pc' = "ecs_loop"
          /\ UNCHANGED <<ctl, lam, proc, outcome, printed, sub, jdx, pass, res, stackStatus>>

EcsListServices ==
    /\ Running /\ pc = "ecs_loop" /\ idx <= Len(list)
    /\ \/ Raise("list_services", list[idx], printed)
       \/ /\ calls' = Append(calls, Call(Cur, "list_services", list[idx], TRUE))
          /\ sub' = Listing(SubIds("service", list[idx]))
          /\ jdx' = 1
          /\ pc' = "ecs_svc"
          /\ UNCHANGED <<ctl, lam, proc, outcome, printed, list, idx, pass, res, stackStatus>>

\* update_service(desiredCount=0)
EcsUpdateService ==
    /\ Running /\ pc = "ecs_svc" /\ jdx <= Len(sub)
    /\ LET out == Append(printed, Line("Deleting service", sub[jdx]))
       IN \/ Raise("update_service", sub[jdx], out)
          \/ /\ calls' = Append(calls, Call(Cur, "update_service", sub[jdx], TRUE))
             /\ printed' = out
             /\ pc' = "ecs_svcdel"
             /\ UNCHANGED <<ctl, loops, lam, proc, outcome, res, stackStatus>>

\* delete_service(force=True), then the branch on wait.
EcsDeleteService ==
    /\ Running /\ pc = "ecs_svcdel"
    /\ \/ Raise("delete_service", sub[jdx], printed)
       \/ /\ calls' = Append(calls, Call(Cur, "delete_service", sub[jdx], TRUE))
          /\ res' = [res EXCEPT ![sub[jdx]] = "deleting"]
          /\ IF waitArg.ecs
               THEN pc' = "ecs_svcwait" /\ jdx' = jdx
               ELSE pc' = "ecs_svc" /\ jdx' = jdx + 1
          /\ UNCHANGED <<ctl, lam, proc, outcome, printed, list, idx, sub, pass, stackStatus>>

\* waiter 'services_inactive'
EcsWaitService ==
    /\ Running /\ pc = "ecs_svcwait"
    /\ \/ Raise("wait_services_inactive", sub[jdx], printed)
       \/ /\ res[sub[jdx]] = "gone"
          /\ calls' = Append(calls, Call(Cur, "wait_services_inactive", sub[jdx], TRUE))
          /\ printed' = Append(printed, Line("Deleted service", sub[jdx]))
          /\ jdx' = jdx + 1
          /\ pc' = "ecs_svc"
          /\ UNCHANGED <<ctl, lam, proc, outcome, list, idx, sub, pass, res, stackStatus>>

\* The service loop is over: list the cluster's tasks.
EcsListTasks ==
    /\ Running /\ pc = "ecs_svc" /\ jdx > Len(sub)
    /\ \/ Raise("list_tasks", list[idx], printed)
       \/ /\ calls' = Append(calls, Call(Cur, "list_tasks", list[idx], TRUE))
          /\ sub' = Listing(SubIds("task", list[idx]))
          /\ jdx' = 1
          /\ pc' = "ecs_task"
          /\ UNCHANGED <<ctl, lam, proc, outcome, printed, list, idx, pass, res, stackStatus>>

EcsStopTask ==
    /\ Running /\ pc = "ecs_task" /\ jdx <= Len(sub)
    /\ LET out == Append(printed, Line("Stopping task", sub[jdx]))
       IN \/ Raise("stop_task", sub[jdx], out)
          \/ /\ calls' = Append(calls, Call(Cur, "stop_task", sub[jdx], TRUE))
             /\ res' = [res EXCEPT ![sub[jdx]] = "deleting"]
             /\ printed' = out
             /\ IF waitArg.ecs
                  THEN pc' = "ecs_taskwait" /\ jdx' = jdx
                  ELSE pc' = "ecs_task" /\ jdx' = jdx + 1
             /\ UNCHANGED <<ctl, lam, proc, outcome, list, idx, sub, pass, stackStatus>>

\* waiter 'tasks_stopped'
EcsWaitTask ==
    /\ Running /\ pc = "ecs_taskwait"
    /\ \/ Raise("wait_tasks_stopped", sub[jdx], printed)
       \/ /\ res[sub[jdx]] = "gone"
          /\ calls' = Append(calls, Call(Cur, "wait_tasks_stopped", sub[jdx], TRUE))
          /\ printed' = Append(printed, Line("Stopped task", sub[jdx]))
          /\ jdx' = jdx + 1
          /\ pc' = "ecs_task"
          /\ UNCHANGED <<ctl, lam, proc, outcome, list, idx, sub, pass, res, stackStatus>>

\* The task loop is over: delete the cluster, then the branch on wait.
EcsDeleteCluster ==
    /\ Running /\ pc = "ecs_task" /\ jdx > Len(sub)
    /\ LET out == Append(printed, Line("Deleting ECS cluster", list[idx]))
       IN \/ Raise("ecs_delete_cluster", list[idx], out)
          \/ /\ calls' = Append(calls, Call(Cur, "ecs_delete_cluster", list[idx], TRUE))
             /\ res' = [res EXCEPT ![list[idx]] = "deleting"]
             /\ printed' = out
             /\ IF waitArg.ecs
                  THEN pc' = "ecs_cwait" /\ idx' = idx
                  ELSE pc' = "ecs_loop" /\ idx' = idx + 1
             /\ UNCHANGED <<ctl, lam, proc, outcome, list, sub, jdx, pass, stackStatus>>

\* waiter 'cluster_deleted' as the code requests it.
EcsWaitCluster ==
    /\ Running /\ pc = "ecs_cwait"
    /\ \/ Raise("ecs_wait_cluster_deleted", list[idx], printed)
       \/ /\ res[list[idx]] = "gone"
          /\ calls' = Append(calls, Call(Cur, "ecs_wait_cluster_deleted", list[idx], TRUE))
          /\ printed' = Append(printed, Line("Deleted ECS cluster", list[idx]))
          /\ idx' = idx + 1
          /\ pc' = "ecs_loop"
          /\ UNCHANGED <<ctl, lam, proc, outcome, list, sub, jdx, pass, res, stackStatus>>

EcsEnd ==
    /\ Running /\ pc = "ecs_loop" /\ idx > Len(list)
    /\ pc' = "ret"
    /\ UNCHANGED <<ctl, loops, lam, proc, outcome, calls, printed, res, stackStatus>>

EcsStep == EcsList \/ EcsListServices \/ EcsUpdateService \/ EcsDeleteService
           \/ EcsWaitService \/ EcsListTasks \/ EcsStopTask \/ EcsWaitTask
           \/ EcsDeleteCluster \/ EcsWaitCluster \/ EcsEnd

\* ---------------------------------------------------------------- provider
\* Types whose deletion the run can observe later: through the poll loop, through
\* a waiter that is always entered, or through a waiter behind the wait argument.
Observed == {"service", "task", "nodegroup", "lambda"}
            \cup { t \in {"ecs", "ec2", "eks"} : waitArg[t] }

\* The provider completes a deletion it accepted.  (A type outside Observed stays
\* "deleting": nothing in the run looks at it again.)
ProviderRes ==
    \E r \in DOMAIN res :
        /\ r[1] \in Observed
        /\ res[r] = "deleting"
        /\ res' = [res EXCEPT ![r] = "gone"]
        /\ UNCHANGED <<ctl, loops, lam, proc, pc, outcome, calls, printed, stackStatus>>

\* ---------------------------------------------------------------- return
\* A procedure returns: __main__ calls the next one, or falls off the end of
\* the script (exit status 0).
Return ==
    /\ Running /\ pc = "ret"
    /\ IF entry = "main" /\ proc < Len(Driver)
         THEN /\ proc' = proc + 1
              /\ pc' = StartLabel(Driver[proc + 1])
              /\ outcome' = outcome
         ELSE /\ proc' = proc
              /\ pc' = "exit"
              /\ outcome' = "success"
    /\ UNCHANGED <<ctl, loops, lam, calls, printed, res, stackStatus>>

\* ---------------------------------------------------------------- initial states
EmptyRegion == [asg |-> 0, ecs |-> 0, service |-> 0, task |-> 0, ec2 |-> 0,
                lambda |-> 0, peering |-> 0, route |-> 0, opensearch |-> 0,
                kinesis |-> 0, firehose |-> 0, eks |-> 0, nodegroup |-> 0]

\* Injective sequences over S of length at most n.
RECURSIVE Orders(_, _)
Orders(S, n) ==
    IF n = 0 THEN { <<>> }
    ELSE LET shorter == Orders(S, n - 1)
         IN shorter \cup { Append(s, x) : s \in { t \in shorter : Len(t) = n - 1 },
                                           x \in S }

Injective(s) == \A i, j \in 1..Len(s) : i # j => s[i] # s[j]

Range(s) == { s[i] : i \in 1..Len(s) }

\* Statuses a stack of the region starts in.
InitStatuses == {"CREATE_COMPLETE", "DELETE_FAILED", "CREATE_IN_PROGRESS"}

\* The state every run starts from, whatever the entry point and the region.
Start(e, p) ==
    /\ entry = e
    /\ proc = ProcIndex(p)
    /\ pc = StartLabel(p)
    /\ outcome = "running"
    /\ calls = <<>>
    /\ printed = <<>>
    /\ list = <<>> /\ idx = 1 /\ sub = <<>> /\ jdx = 1
    /\ pass = 1

\* The provider state of a region that holds rg[t] resources of each type t.
TopTypes == {"asg", "ecs", "ec2", "lambda", "peering", "opensearch", "kinesis",
             "firehose", "eks"}

Parent(t) == CASE t = "service" -> "ecs"
               [] t = "task" -> "ecs"
               [] t = "route" -> "peering"
               [] t = "nodegroup" -> "eks"

SubTypes == {"service", "task", "route", "nodegroup"}

AllIds(rg) ==
    (UNION { { <<t, i>> : i \in 1..rg[t] } : t \in TopTypes })
    \cup (UNION { { <<t, i, j>> : i \in 1..rg[Parent(t)], j \in 1..rg[t] } :
                  t \in SubTypes })

InRegion(rg) ==
    /\ region = rg
    /\ res = [r \in AllIds(rg) |-> "present"]
    /\ polls = [f \in { <<"lambda", i>> : i \in 1..rg.lambda } |-> 0]
    /\ pollEnd = [f \in { <<"lambda", i>> : i \in 1..rg.lambda } |-> "none"]

\* The stacks of the region: their listing order, statuses and protection flags.
WithStacks(order, status, protected) ==
    /\ stackOrder = order
    /\ stackStatus = [n \in StackNames |-> IF n \in Range(order) THEN status[n] ELSE "NONE"]
    /\ stackInit = stackStatus
    /\ stackProt = [n \in StackNames |-> n \in Range(order) /\ protected[n]]

\* delete_all_stacks(region, wait) called on its own, for either wait.
InitStacks ==
    /\ Start("stacks", "stacks")
    /\ \E w \in BOOLEAN : waitArg = [DriverWait EXCEPT !.stacks = w]
    /\ InRegion(EmptyRegion)
    /\ \E order \in { s \in Orders(StackNames, MaxStacks) : Injective(s) } :
         \E status \in [Range(order) -> InitStatuses], protected \in [Range(order) -> BOOLEAN] :
            WithStacks(order, status, protected)

NextStacks == StacksStep \/ ProviderStack \/ Return

StacksSpec == InitStacks /\ [][NextStacks]_vars

NoStacks == WithStacks(<<>>, <<>>, <<>>)

\* delete_all_eks_clusters(region, wait) called on its own, for either wait.
InitEks ==
    /\ Start("eks", "eks")
    /\ \E w \in BOOLEAN : waitArg = [DriverWait EXCEPT !.eks = w]
    /\ \E c \in 0..MaxClusters, n \in 0..MaxNodegroups :
         InRegion([EmptyRegion EXCEPT !.eks = c, !.nodegroup = n])
    /\ NoStacks

NextEks == EksStep \/ ProviderRes \/ Return

EksSpec == InitEks /\ [][NextEks]_vars

\* delete_all_ecs_clusters(region, wait) called on its own, for either wait.
InitEcs ==
    /\ Start("ecs", "ecs")
    /\ \E w \in BOOLEAN : waitArg = [DriverWait EXCEPT !.ecs = w]
    /\ \E c \in 0..MaxRes, s \in 0..MaxSub, t \in 0..MaxSub :
         InRegion([EmptyRegion EXCEPT !.ecs = c, !.service = s, !.task = t])
    /\ NoStacks

NextEcs == EcsStep \/ ProviderRes \/ Return

EcsSpec == InitEcs /\ [][NextEcs]_vars

\* delete_all_lambda_functions(region) called on its own.
InitLambda ==
    /\ Start("lambda", "lambda")
    /\ waitArg = DriverWait
    /\ \E n \in 0..MaxFunctions : InRegion([EmptyRegion EXCEPT !.lambda = n])
    /\ NoStacks

NextLambda == LambdaStep \/ ProviderRes \/ Return

LambdaSpec == InitLambda /\ [][NextLambda]_vars

\* The stacks of the scenario of the specification's section 8.
ScenarioOrder == << <<"AppPipe", "prod">>, <<"other", "infra">>, <<"other", "app">> >>
ScenarioProt == [n \in Range(ScenarioOrder) |-> n = <<"other", "infra">>]
ScenarioStatus == [n \in Range(ScenarioOrder) |-> "CREATE_COMPLETE"]

\* The region with k resources of each top-level type and MaxSub children each.
Uniform(k) ==
    [t \in DOMAIN EmptyRegion |-> IF t \in TopTypes THEN k ELSE MaxSub]

\* The resource types procedure p lists.
TypesOf(p) == IF p = "kinesis" THEN {"kinesis", "firehose"} ELSE {p}

\* The full region without any resource of the types procedure p lists.
Without(p) ==
    [t \in DOMAIN EmptyRegion |-> IF t \in TypesOf(p) THEN 0 ELSE Uniform(MaxRes)[t]]

\* The regions the script is run against: k resources of every type, or a full
\* region in which one procedure finds nothing.
MainRegions ==
    { Uniform(k) : k \in 0..MaxRes } \cup { Without(Driver[i]) : i \in 1..Len(Driver) }

\* The script run as __main__, in a region without stacks or with the scenario's.
Init ==
    /\ Start("main", Driver[1])
    /\ waitArg = DriverWait
    /\ \E rg \in MainRegions : InRegion(rg)
    /\ \/ NoStacks
       \/ WithStacks(ScenarioOrder, ScenarioStatus, ScenarioProt)

\* Every step of the script; with the arguments __main__ passes (wait=False for
\* EC2, EKS and the stacks) Ec2Wait, EksWaitCluster and StacksWait are never entered.
Next ==
    \/ AsgStep \/ EcsStep
    \/ Ec2List \/ Ec2Terminate \/ Ec2End
    \/ LambdaStep \/ PeeringStep \/ OpenSearchStep \/ KinesisStep
    \/ EksList \/ EksListNodegroups \/ EksDeleteNodegroup \/ EksWaitNodegroup
    \/ EksDeleteCluster \/ EksEnd
    \/ StacksList \/ StacksSkipName \/ StacksDescribe \/ StacksDelete \/ StacksEndPass
    \/ ProviderRes \/ ProviderStack \/ Return

Spec == Init /\ [][Next]_vars

\* ================================================================ properties
CallIdx == 1..Len(calls)

\* The positions of the successful calls of one API on one argument.
Issued(api, arg) == { i \in CallIdx : calls[i].api = api /\ calls[i].arg = arg }

\* The pass of delete_all_stacks that issued call i: the listings issued so far.
PassOf(i) == Cardinality({ k \in 1..i : calls[k].api = "list_stacks" })

Lines(msg, arg) == { i \in 1..Len(printed) : printed[i].msg = msg /\ printed[i].arg = arg }

ProtectedName(n) == Contains(n, "AppPipe") \/ Contains(n, "AppIngestion")

\* The arguments of the delete_stack calls, in the order they were issued.
DeletedStacks ==
    LET del == SelectSeq(calls, LAMBDA c : c.api = "delete_stack")
    IN [i \in 1..Len(del) |-> del[i].arg]

\* C1: a stack whose termination protection is enabled is never the target of a
\* delete_stack call, in either pass and for either wait: every describe_stacks
\* that finds it protected prints "Skipping stack" and nothing else about it.
C1_ProtectedNeverDeleted ==
    \A n \in StackNames :
        stackProt[n] =>
            /\ Issued("delete_stack", n) = {}
            /\ Lines("Deleting stack", n) = {} /\ Lines("Deleted stack", n) = {}
            /\ Cardinality(Lines("Skipping stack", n))
                 = Cardinality({ i \in Issued("describe_stacks", n) : calls[i].ok })

\* A run that returned after skipping a protected stack in the name-filtered pass
\* and another in the general pass, while deleting a third stack.
C1_Witness ==
    /\ pc = "exit"
    /\ \E n, m \in StackNames :
          /\ stackProt[n] /\ stackProt[m]
          /\ \E i \in Issued("describe_stacks", n) : PassOf(i) = 1
          /\ \E i \in Issued("describe_stacks", m) : PassOf(i) = 2
    /\ Len(DeletedStacks) > 0

\* The stacks the first listing returns: those whose status passes its filter.
ListedFirst == { n \in Range(stackOrder) : stackInit[n] \in StatusFilter(1) }

ScenarioRun ==
    /\ stackOrder = ScenarioOrder
    /\ \A n \in Range(ScenarioOrder) :
          stackInit[n] = ScenarioStatus[n] /\ stackProt[n] = ScenarioProt[n]

\* C2: when the general pass describes or deletes any stack, every listed,
\* unprotected stack whose name contains 'AppPipe' or 'AppIngestion' already has
\* its delete_stack call; and the run over AppPipe-prod, other-infra (protected)
\* and other-app ends with exactly the calls AppPipe-prod, then other-app.
C2_NamedStacksDeletedFirst ==
    /\ \A i \in CallIdx :
          (calls[i].api \in {"describe_stacks", "delete_stack"} /\ PassOf(i) = 2) =>
              \A n \in ListedFirst :
                  (ProtectedName(n) /\ ~stackProt[n]) =>
                      \E j \in Issued("delete_stack", n) : j < i /\ calls[j].ok
    /\ (ScenarioRun /\ pc = "exit") =>
          DeletedStacks = << <<"AppPipe", "prod">>, <<"other", "app">> >>

\* A returned run in which a stack of each naming convention was deleted in the
\* first pass and another stack was deleted by the general pass.
C2_Witness ==
    /\ pc = "exit"
    /\ \E n \in StackNames : Contains(n, "AppIngestion") /\ Issued("delete_stack", n) # {}
    /\ \E n \in StackNames : Contains(n, "AppPipe") /\ Issued("delete_stack", n) # {}
    /\ \E i \in CallIdx : calls[i].api = "delete_stack" /\ PassOf(i) = 2

\* The scenario itself, run to its end.
C2_ScenarioWitness == ScenarioRun /\ pc = "exit" /\ Len(DeletedStacks) = 2

\* C9: the general pass neither describes nor deletes a stack whose name matches
\* the protected naming convention, no stack gets two delete_stack calls in one
\* invocation, and a stack the first listing selected by status, if its status
\* has not changed, is selected by the second listing too.
C9_SecondPassOnlyRemaining ==
    /\ \A i \in CallIdx :
          (calls[i].api \in {"describe_stacks", "delete_stack"} /\ PassOf(i) = 2) =>
              ~ProtectedName(calls[i].arg)
    /\ \A n \in StackNames : Cardinality(Issued("delete_stack", n)) <= 1
    /\ (pass = 2 /\ pc = "stk_loop") =>
          \A n \in ListedFirst : stackStatus[n] = stackInit[n] => n \in Range(list)

\* The parts of C9 taken one at a time.
C9_NoConventionNameInSecondPass ==
    \A i \in CallIdx :
        (calls[i].api \in {"describe_stacks", "delete_stack"} /\ PassOf(i) = 2) =>
            ~ProtectedName(calls[i].arg)

C9_AtMostOneDelete ==
    \A n \in StackNames : Cardinality(Issued("delete_stack", n)) <= 1

C9_SameStatuses ==
    (pass = 2 /\ pc = "stk_loop") =>
        \A n \in ListedFirst : stackStatus[n] = stackInit[n] => n \in Range(list)

\* C3: an EKS cluster's delete_cluster call comes only after every node group
\* listed for it had delete_nodegroup issued and its nodegroup_deleted wait
\* returned, the node group being gone; for either wait.
C3_NodegroupsGoneBeforeCluster ==
    \A i \in CallIdx :
        calls[i].api = "eks_delete_cluster" =>
            \A j \in 1..region.nodegroup :
                LET ng == <<"nodegroup", calls[i].arg[2], j>> IN
                /\ res[ng] = "gone"
                /\ \E d \in Issued("delete_nodegroup", ng),
                      w \in Issued("wait_nodegroup_deleted", ng) :
                        calls[d].ok /\ calls[w].ok /\ d < w /\ w < i

\* One cluster's delete call issued after its two node groups, without wait.
C3_Witness ==
    /\ ~waitArg.eks
    /\ region.nodegroup = 2
    /\ \E i \in CallIdx : calls[i].api = "eks_delete_cluster" /\ calls[i].ok

\* C4: when delete_cluster is about to be issued for an ECS cluster, none of its
\* services is still active or draining and none of its tasks is still running,
\* for every wait.
C4_ClusterEmptyAtDelete ==
    (Running /\ pc = "ecs_task" /\ jdx > Len(sub)) =>
        \A t \in {"service", "task"} : \A j \in 1..region[t] :
            res[<<t, list[idx][2], j>>] = "gone"

\* The order of the driver as the claim states it.
ExpectedOrder == <<"asg", "ecs", "ec2", "lambda", "peering", "opensearch", "kinesis",
                   "eks", "stacks">>

Pos(p) == CHOOSE k \in 1..Len(ExpectedOrder) : ExpectedOrder[k] = p

\* The API each procedure calls first.
FirstApi == [asg |-> "describe_auto_scaling_groups", ecs |-> "ecs_list_clusters",
             ec2 |-> "describe_instances", lambda |-> "list_functions",
             peering |-> "describe_vpc_peering_connections",
             opensearch |-> "list_domain_names", kinesis |-> "list_streams",
             eks |-> "eks_list_clusters", stacks |-> "list_stacks"]

\* Procedure p was entered and its first listing returned.
Entered(p) == \E i \in CallIdx : calls[i].proc = p /\ calls[i].api = FirstApi[p] /\ calls[i].ok

\* C5: the calls of the run follow the driver's order of procedures, no call of a
\* procedure coming right after (hence ever after) one of a later procedure; ECS waits after each service
\* deletion, EC2 and the stacks never wait; and a delete_stack call is issued only
\* after each of the eight other procedures was entered and has issued its last call.
C5_DriverOrder ==
    /\ \A i \in 1..(Len(calls) - 1) : Pos(calls[i].proc) <= Pos(calls[i + 1].proc)
    /\ \A i \in CallIdx :
          /\ calls[i].api \notin {"wait_instance_terminated", "wait_stack_delete_complete"}
          /\ (calls[i].api = "delete_service" /\ calls[i].ok /\ i < Len(calls)) =>
                calls[i + 1].api = "wait_services_inactive"
          /\ calls[i].api = "delete_stack" =>
                \A k \in 1..(Len(ExpectedOrder) - 1) :
                    \E j \in 1..(i - 1) :
                        /\ calls[j].proc = ExpectedOrder[k]
                        /\ calls[j].api = FirstApi[ExpectedOrder[k]] /\ calls[j].ok

\* A full region, all nine procedures run to the end, two stacks deleted last.
C5_Witness ==
    /\ outcome = "success"
    /\ \A t \in TopTypes : region[t] = MaxRes
    /\ Len(DeletedStacks) = 2
    /\ calls[Len(calls)].api = "delete_stack"

\* The top-level listing calls.
TopListApis == { FirstApi[p] : p \in DOMAIN FirstApi } \cup {"list_delivery_streams"}

\* The region holds no resource of the types procedure p lists.
NothingOf(p) ==
    CASE p = "stacks" -> stackOrder = <<>>
      [] p = "kinesis" -> region.kinesis = 0 /\ region.firehose = 0
      [] OTHER -> region[p] = 0

\* The labels at which a procedure is between loop iterations, or over.
RestLabels == {"asg_list", "asg_loop", "ecs_list", "ecs_loop", "ec2_list", "ec2_loop",
               "lam_list", "lam_loop", "pcx_list", "pcx_loop", "os_list", "os_loop",
               "kin_list", "kin_loop", "fh_loop", "eks_list", "eks_loop",
               "stk_list", "stk_loop", "ret", "exit"}

\* C6: a procedure that finds no resource of its type issues nothing but its
\* listing calls, never enters a loop body, and ends the run in a fault only if a
\* listing call itself raised; so a run over a region where everything is gone
\* issues its eleven listing calls and nothing else.
C6_AbsentIsNoOp ==
    /\ \A p \in Range(ExpectedOrder) :
          NothingOf(p) =>
              /\ \A i \in CallIdx : calls[i].proc = p => calls[i].api \in TopListApis
              /\ (Cur = p /\ pc # "aborted") => pc \in RestLabels
              /\ (Cur = p /\ pc = "aborted") => calls[Len(calls)].api \in TopListApis
    /\ (\A p \in Range(ExpectedOrder) : NothingOf(p)) =>
          /\ \A i \in CallIdx : calls[i].api \in TopListApis
          /\ Len(printed) = 0
          /\ outcome = "success" => Len(calls) = 11

\* The run over the empty region, finished.
C6_Witness ==
    /\ \A p \in Range(ExpectedOrder) : NothingOf(p)
    /\ outcome = "success"

\* A full region in which only the Lambda procedure finds nothing, finished.
C6_WitnessOne ==
    /\ NothingOf("lambda") /\ ~NothingOf("asg") /\ ~NothingOf("eks")
    /\ outcome = "success"

Functions == DOMAIN pollEnd

\* C7: a listed function gets one delete_function call, polls follow it, a poll
\* that finds the function gone ends its loop with "Deleted Lambda function", a
\* poll that raises anything else ends it with "Error checking function status",
\* and either way the procedure moves to the next function: no poll ends the run,
\* and the procedure returns with every function deleted once and polled to an end.
C7_LambdaDeleteThenPoll ==
    /\ \A f \in Functions :
          /\ Cardinality(Issued("delete_function", f)) <= 1
          /\ polls[f] > 0 => \E i \in Issued("delete_function", f) : calls[i].ok
          /\ pollEnd[f] # "none" => polls[f] > 0
          /\ Cardinality(Lines("Deleted Lambda function", f))
               = (IF pollEnd[f] = "notfound" THEN 1 ELSE 0)
          /\ Cardinality(Lines("Error checking function status", f))
               = (IF pollEnd[f] = "error" THEN 1 ELSE 0)
    /\ pc \in {"lam_loop", "lam_poll"} =>
          \A k \in 1..Len(list) : (pollEnd[list[k]] # "none") <=> (k < idx)
    /\ outcome = "failed" =>
          /\ calls[Len(calls)].api \in {"list_functions", "delete_function"}
          /\ ~calls[Len(calls)].ok
    /\ pc \in {"ret", "exit"} =>
          \A f \in Functions :
              /\ Cardinality(Issued("delete_function", f)) = 1
              /\ pollEnd[f] \in {"notfound", "error"}

\* Two functions: the polling of the first abandoned on an error, the second
\* found deleted, the procedure returned normally.
C7_Witness ==
    /\ pc = "exit" /\ outcome = "success"
    /\ Cardinality(Functions) = 2
    /\ pollEnd[<<"lambda", 1>>] = "error"
    /\ pollEnd[<<"lambda", 2>>] = "notfound"

\* What a step leaves alone once the run is over, and what no step undoes.
C8_Step ==
    /\ outcome # "running" =>
          /\ calls' = calls /\ printed' = printed
          /\ outcome' = outcome /\ pc' = pc /\ proc' = proc
    /\ \A r \in DOMAIN res : res[r] # "present" => res'[r] # "present"
    /\ \A r \in DOMAIN res : res[r] = "gone" => res'[r] = "gone"
    /\ \A n \in StackNames :
          stackStatus[n] = "DELETE_COMPLETE" => stackStatus'[n] = "DELETE_COMPLETE"

C8_State ==
    /\ \A i \in CallIdx : ~calls[i].ok => (i = Len(calls) /\ outcome = "failed")
    /\ outcome = "failed" => (Len(calls) > 0 /\ ~calls[Len(calls)].ok /\ pc = "aborted")
    /\ outcome = "success" =>
          /\ pc = "exit"
          /\ \A p \in Range(ExpectedOrder) : Entered(p)
          /\ calls[Len(calls)].proc = "stacks"

\* C8: a call that raises is the last call of the run and the run has failed;
\* after that no call is issued, nothing is printed and nothing deleted comes
\* back; the run succeeds only after all nine procedures ran.
C8_FaultAborts == []C8_State /\ [][C8_Step]_vars

\* The run aborted by delete_domain raising, with the Auto Scaling group it
\* deleted earlier still deleted.
C8_Witness ==
    /\ outcome = "failed"
    /\ calls[Len(calls)].api = "delete_domain"
    /\ <<"asg", 1>> \in DOMAIN res /\ res[<<"asg", 1>>] = "deleting"
    /\ <<"eks", 1>> \in DOMAIN res /\ res[<<"eks", 1>>] = "present"

\* One step of the poll loop seen from outside.
C10_Step ==
    /\ (pc = "lam_poll" /\ pc' # "lam_poll") =>
          /\ pollEnd[list[idx]] = "none"
          /\ pollEnd'[list[idx]] \in {"notfound", "error"}
          /\ pc' = "lam_loop" /\ idx' = idx + 1
    /\ \A f \in Functions :
          /\ (pollEnd[f] = "none" /\ pollEnd'[f] = "notfound") => res[f] = "gone"
          /\ pollEnd[f] # "none" => pollEnd'[f] = pollEnd[f]
    /\ (pc = "lam_poll" /\ pollEnd' = pollEnd) =>
          (pc' = "lam_poll" /\ idx' = idx /\ outcome' = "running" /\ calls' = calls)

C10_State ==
    /\ pc = "lam_poll" => (Running /\ pollEnd[list[idx]] = "none")
    /\ pc \in {"ret", "exit"} => \A f \in Functions : pollEnd[f] \in {"notfound", "error"}
    /\ \A f \in Functions : polls[f] <= MaxPolls

\* C10: the poll loop is left only by a poll that finds the function gone or
\* raises something else, whatever the number of polls so far; while the provider
\* reports the function the run stays in the loop for that function, issuing no
\* other call; and the procedure returns only after every function's loop ended so.
C10_PollLoopUnbounded == []C10_State /\ [][C10_Step]_vars

\* The poll counter at its cap with the function still reported and the loop
\* still turning, a second function not yet reached.
C10_Witness ==
    /\ pc = "lam_poll" /\ idx = 1 /\ Len(list) = 2
    /\ polls[list[1]] = MaxPolls
    /\ res[list[1]] # "gone"
    /\ Issued("delete_function", list[2]) = {}

====
